---- MODULE Spec2Model ----
(***************************************************************************)
(* Model of backend.py of ia-sumatoria: the amount parser, the Cabal and   *)
(* universal category matchers (regular expressions over page text), the   *)
(* per-page router and the consolidation into the summary table.           *)
(*                                                                         *)
(* Text is a sequence of atoms.  An atom is one character that the         *)
(* patterns distinguish (a digit, ".", ",", "%", "-", " ", "NL" for the    *)
(* newline, "u2212" for the Unicode minus U+2212) or one upper-case word   *)
(* or phrase without digits, minus signs or newlines that the patterns     *)
(* match as a whole ("IVA", "RETENCION", "SERV.OPER.INT.", ...).  A phrase  *)
(* atom stands for the spellings of the phrase that the pattern accepts    *)
(* (optional periods, Ó/O).  Amounts are integers in cents.                *)
(***************************************************************************)
EXTENDS Integers, Sequences, FiniteSets, TLC

VARIABLES file, bytes, pc, pages, idx, cabal_tot, uni_tot, saw_cabal, route, resumen

vars == <<file, bytes, pc, pages, idx, cabal_tot, uni_tot, saw_cabal, route, resumen>>

(***************************************************************************)
(* Regular expressions (Python re, backtracking, leftmost match).          *)
(***************************************************************************)
Digits == {"0", "1", "2", "3", "4", "5", "6", "7", "8", "9"}

DigitSeq == <<"0", "1", "2", "3", "4", "5", "6", "7", "8", "9">>

DigitVal(a) == (CHOOSE k \in 1..10 : DigitSeq[k] = a) - 1

\* Character classes of the patterns, as predicates on atoms.
InClass(c, a) ==
    CASE c = "d"      -> a \in Digits                            \* \d
      [] c = "s"      -> a \in {" ", "NL", "xa0"}                \* \s
      [] c = "any"    -> a # "NL"                                \* . and [^\n]
      [] c = "nonnum" -> a \notin (Digits \cup {"-", "u2212"})   \* [^\d\-u2212]
      [] c = "digdot" -> a \in (Digits \cup {"."})               \* [\d.]
      [] c = "sign"   -> a \in {"-", "u2212"}                    \* [\-u2212]
      [] c = "hyphen" -> a = "-"                                 \* \-

\* Pattern elements.
Lit(a) == [t |-> "lit", a |-> a]
Lits(s) == [k \in 1..Len(s) |-> Lit(s[k])]
Greedy(c, lo, hi) == [t |-> "rep", c |-> c, lo |-> lo, hi |-> hi, lazy |-> FALSE]
Lazy(c, lo, hi) == [t |-> "rep", c |-> c, lo |-> lo, hi |-> hi, lazy |-> TRUE]
Group(body, lo, hi) == [t |-> "grp", body |-> body, lo |-> lo, hi |-> hi]
Alt(opts) == [t |-> "alt", opts |-> opts]
Open == [t |-> "open"]
Close == [t |-> "close"]

\* An unbounded quantifier (*, +): larger than any modelled text.
Unbounded == 1000

FAIL == [ok |-> FALSE, end |-> 0, s |-> 0, e |-> 0]

\* The longest run of atoms of class c that starts at i, at most hi long.
Run(c, text, i, hi) ==
    LET lim == IF Len(text) - i + 1 < hi THEN Len(text) - i + 1 ELSE hi
    IN  CHOOSE n \in 0..lim :
            /\ \A k \in 0..(n - 1) : InClass(c, text[i + k])
            /\ (n = lim \/ ~InClass(c, text[i + n]))

RECURSIVE Match(_, _, _, _, _)
RECURSIVE TryRep(_, _, _, _, _, _, _, _)
RECURSIVE TryAlt(_, _, _, _, _, _, _)

\* Match the elements at position i of text: the first success in the
\* order in which a backtracking matcher tries the alternatives.  s and e
\* delimit the amount group (e is exclusive).
Match(elems, text, i, s, e) ==
    IF elems = <<>> THEN [ok |-> TRUE, end |-> i, s |-> s, e |-> e]
    ELSE LET h == Head(elems)
             rest == Tail(elems)
         IN  CASE h.t = "lit" ->
                    IF i <= Len(text) /\ text[i] = h.a
                    THEN Match(rest, text, i + 1, s, e) ELSE FAIL
               [] h.t = "open" -> Match(rest, text, i, i, e)
               [] h.t = "close" -> Match(rest, text, i, s, i)
               [] h.t = "rep" ->
                    LET n == Run(h.c, text, i, h.hi)
                    IN  IF n < h.lo THEN FAIL
                        ELSE TryRep(h, rest, text, i, s, e,
                                    IF h.lazy THEN h.lo ELSE n, n)
               [] h.t = "grp" ->
                    LET again == Group(h.body,
                                       IF h.lo > 0 THEN h.lo - 1 ELSE 0, h.hi - 1)
                        r == IF h.hi > 0
                             THEN Match(h.body \o <<again>> \o rest, text, i, s, e)
                             ELSE FAIL
                    IN  IF r.ok THEN r
                        ELSE IF h.lo = 0 THEN Match(rest, text, i, s, e) ELSE FAIL
               [] h.t = "alt" -> TryAlt(h.opts, 1, rest, text, i, s, e)

TryRep(h, rest, text, i, s, e, c, n) ==
    LET r == Match(rest, text, i + c, s, e)
    IN  IF r.ok THEN r
        ELSE IF h.lazy
             THEN IF c + 1 <= n THEN TryRep(h, rest, text, i, s, e, c + 1, n) ELSE FAIL
             ELSE IF c - 1 >= h.lo THEN TryRep(h, rest, text, i, s, e, c - 1, n) ELSE FAIL

TryAlt(opts, k, rest, text, i, s, e) ==
    IF k > Len(opts) THEN FAIL
    ELSE LET r == Match(opts[k] \o rest, text, i, s, e)
         IN  IF r.ok THEN r ELSE TryAlt(opts, k + 1, rest, text, i, s, e)

RECURSIVE finditer(_, _, _)

\* The match that starts at i is kept; the search goes on at its end.
KeepMatch(rx, text, i, m) ==
    <<m>> \o finditer(rx, text, IF m.end > i THEN m.end ELSE i + 1)

\* starts: the positions from which the pattern matches.
FirstMatch(rx, text, starts) ==
    IF starts = {} THEN <<>>
    ELSE KeepMatch(rx, text, CHOOSE x \in starts : \A y \in starts : x <= y,
                   Match(rx, text, CHOOSE x \in starts : \A y \in starts : x <= y, 0, 0))

\* rx.finditer(text): the non-overlapping matches from position from on,
\* each the leftmost match at or after the end of the one before it.
finditer(rx, text, from) ==
    FirstMatch(rx, text, {i \in from..Len(text) : Match(rx, text, i, 0, 0).ok})

\* m.group(n) of the amount group: the captured atoms.
group(text, m) == SubSeq(text, m.s, m.e - 1)

(***************************************************************************)
(* Utils                                                                   *)
(***************************************************************************)
\* str.strip(): drop leading and trailing whitespace.
Span(s, keep) ==
    IF keep = {} THEN <<>>
    ELSE SubSeq(s, CHOOSE a \in keep : \A b \in keep : a <= b,
                   CHOOSE a \in keep : \A b \in keep : a >= b)

strip(s) == Span(s, {k \in 1..Len(s) : ~InClass("s", s[k])})

\* str.replace(old, new) for a one-atom old and a new of one atom or none.
replace(s, old, new) ==
    IF new = <<>> THEN SelectSeq(s, LAMBDA a : a # old)
    ELSE <<>> \o [k \in 1..Len(s) |-> IF s[k] = old THEN new[1] ELSE s[k]]

RECURSIVE DigitsVal(_)
\* The number a string of digits denotes.
DigitsVal(s) ==
    IF s = <<>> THEN 0 ELSE 10 * DigitsVal(SubSeq(s, 1, Len(s) - 1)) + DigitVal(s[Len(s)])

\* float(s) of Python on the atoms that can reach it: surrounding
\* whitespace, one optional sign directly before the number, digits with at
\* most one decimal point and at least one digit.  Anything else is a
\* ValueError (ok = FALSE).  The value is in cents; every amount the
\* patterns capture has exactly two decimals, so no precision is lost.
\* The digits ip before and fp after the decimal point, in cents.
Magnitude(ip, fp) ==
    100 * DigitsVal(ip)
    + (CASE Len(fp) = 0 -> 0
         [] Len(fp) = 1 -> 10 * DigitVal(fp[1])
         [] OTHER -> 10 * DigitVal(fp[1]) + DigitVal(fp[2]))

FloatParts(negative, ip, fp, points) ==
    IF /\ points <= 1
       /\ \A k \in 1..Len(ip) : ip[k] \in Digits
       /\ \A k \in 1..Len(fp) : fp[k] \in Digits
       /\ Len(ip) + Len(fp) >= 1
    THEN [ok |-> TRUE, val |-> IF negative THEN 0 - Magnitude(ip, fp) ELSE Magnitude(ip, fp)]
    ELSE [ok |-> FALSE, val |-> 0]

FloatUnsigned(negative, body, dots) ==
    IF dots = {} THEN FloatParts(negative, body, <<>>, 0)
    ELSE FloatParts(negative,
                    SubSeq(body, 1, (CHOOSE k \in dots : TRUE) - 1),
                    SubSeq(body, (CHOOSE k \in dots : TRUE) + 1, Len(body)),
                    Cardinality(dots))

FloatStripped(t) ==
    IF t # <<>> /\ t[1] \in {"-", "+"}
    THEN FloatUnsigned(t[1] = "-", Tail(t), {k \in 1..(Len(t) - 1) : t[k + 1] = "."})
    ELSE FloatUnsigned(FALSE, t, {k \in 1..Len(t) : t[k] = "."})

float(s) == FloatStripped(strip(s))

to_float_signed(s) ==
    float(replace(replace(replace(strip(s), "u2212", <<"-">>), ".", <<>>), ",", <<".">>))

\* round(num/den, 2) in cents, for num/den an amount in cents: the nearest
\* integer, a tie going to the even one.
round2(num, den) ==
    IF 2 * (num % den) < den THEN num \div den
    ELSE IF 2 * (num % den) > den THEN (num \div den) + 1
    ELSE IF (num \div den) % 2 = 0 THEN num \div den ELSE (num \div den) + 1

\* The parsed amounts of all matches of rx in text, in match order.
Parsed(text, ms) == <<>> \o [k \in 1..Len(ms) |-> to_float_signed(group(text, ms[k]))]

Amounts(rx, text) == Parsed(text, finditer(rx, text, 1))

RECURSIVE SumVals(_)
SumVals(vs) == IF vs = <<>> THEN 0 ELSE Head(vs).val + SumVals(Tail(vs))

AllOk(vs) == \A k \in 1..Len(vs) : vs[k].ok

(***************************************************************************)
(* CABAL                                                                   *)
(***************************************************************************)
\* ([\d.]+,\d{2})\s*[-u2212]
CabalTail ==
    <<Lazy("any", 0, Unbounded), Open, Greedy("digdot", 1, Unbounded), Lit(","),
      Greedy("d", 2, 2), Close, Greedy("s", 0, Unbounded), Greedy("sign", 1, 1)>>

Pct2100 == Lits(<<"2", "1", ",", "0", "0", "%">>)
Pct1050 == Lits(<<"1", "0", ",", "5", "0", "%">>)

CABAL_PATTERNS ==
    [IVA_ARANCEL_21 |->
        Lits(<<"IVA", " ", "S/ARANCEL DE DESCUENTO">>) \o <<Greedy("s", 1, Unbounded)>>
        \o Pct2100 \o CabalTail,
     IVA_COSTO_10_5 |->
        Lits(<<"IVA", " ", "S/COSTO FINANCIERO">>) \o <<Greedy("s", 1, Unbounded)>>
        \o Pct1050 \o CabalTail,
     PERCEPCION_RG333 |->
        Lits(<<"PERCEPCION", " ", "DE", " ", "IVA", " ", "RG", " ", "3", "3", "3">>)
        \o CabalTail,
     RETENCION_IB |->
        Lits(<<"RETENCION", " ", "DE", " ", "INGRESOS BR">>) \o CabalTail,
     MENOS_IVA_21 |->
        <<Greedy("sign", 1, 1), Lit("IVA"), Greedy("s", 1, Unbounded)>>
        \o Pct2100 \o CabalTail]

ZeroCabal ==
    [iva_arancel |-> 0, iva_costo |-> 0, percep_rg333 |-> 0, ret_iibb |-> 0, menos_iva |-> 0]

CabalKeys == DOMAIN ZeroCabal

\* The amounts each Cabal pattern matches in text.
CabalMatches(text) ==
    [iva_arancel |-> Amounts(CABAL_PATTERNS.IVA_ARANCEL_21, text),
     iva_costo |-> Amounts(CABAL_PATTERNS.IVA_COSTO_10_5, text),
     percep_rg333 |-> Amounts(CABAL_PATTERNS.PERCEPCION_RG333, text),
     ret_iibb |-> Amounts(CABAL_PATTERNS.RETENCION_IB, text),
     menos_iva |-> Amounts(CABAL_PATTERNS.MENOS_IVA_21, text)]

\* ok = FALSE: to_float_signed raised and the exception leaves the function.
CabalTotals(ms) ==
    [ok |-> \A k \in CabalKeys : AllOk(ms[k]),
     tot |-> [k \in CabalKeys |-> SumVals(ms[k])]]

extract_cabal_exact(text) == CabalTotals(CabalMatches(text))

(***************************************************************************)
(* UNIVERSAL                                                               *)
(***************************************************************************)
\* \d{1,3}(?:\.\d{3})*,\d{2}
Number ==
    <<Greedy("d", 1, 3), Group(<<Lit("."), Greedy("d", 3, 3)>>, 0, Unbounded),
      Lit(","), Greedy("d", 2, 2)>>

Ws == Greedy("s", 0, Unbounded)

\* (\-?\d{1,3}(?:\.\d{3})*,\d{2})
HyphenAmount == <<Open, Greedy("hyphen", 0, 1)>> \o Number \o <<Close>>

\* ([\-u2212]?\d{1,3}(?:\.\d{3})*,\d{2})
SignAmount == <<Open, Greedy("sign", 0, 1)>> \o Number \o <<Close>>

\* The windows {0,200} and {0,120} count characters; the modelled lines are
\* shorter than either, so counting atoms gives the same matches.
RX_IVA21_ANY ==
    <<Lit("IVA"), Lazy("any", 0, 200)>> \o Lits(<<"2", "1", ",", "0", "0">>)
    \o <<Ws, Lit("%"), Lazy("any", 0, 120), Open, Greedy("sign", 0, 1), Greedy("s", 0, 1)>>
    \o Number \o <<Close>>

RX_IVA21_RI_DTO_FOT ==
    <<Lit("IVA"), Ws, Lit("RI"), Ws, Lit("CRED.FISC.COMERCIO S/DTO F.OTORG"),
      Greedy("nonnum", 0, 120)>> \o SignAmount

RX_IVA21_RI_SERV_INT ==
    <<Lit("IVA"), Ws, Lit("RI"), Ws, Lit("SERV.OPER.INT."), Greedy("nonnum", 0, 120)>>
    \o SignAmount

RX_IVA105 ==
    <<Alt(<< <<Lit("IVA"), Ws, Lit("CRED.FISC.COM.L."), Ws>> \o Lits(<<"2", "5", "0", "6", "3">>)
             \o <<Ws, Lit("S/DTO F.OTOR"), Ws>> \o Pct1050,
             <<Lit("IVA"), Ws, Lit("S/COSTO FINANCIERO"), Ws>> \o Pct1050 >>),
      Greedy("nonnum", 0, Unbounded)>> \o HyphenAmount

Rg2408 == <<Lit("PERCEPCION"), Ws, Lit("IVA"), Ws, Lit("RG"), Ws>> \o Lits(<<"2", "4", "0", "8">>)

RX_PERC_IVA_30 ==
    Rg2408 \o <<Ws>> \o Lits(<<"3", ",", "0", "0">>)
    \o <<Ws, Lit("%"), Greedy("nonnum", 0, Unbounded)>> \o HyphenAmount

RX_PERC_IVA_15 ==
    Rg2408 \o <<Ws>> \o Lits(<<"1", ",", "5", "0">>)
    \o <<Ws, Lit("%"), Greedy("nonnum", 0, Unbounded)>> \o HyphenAmount

RX_RET_IIBB ==
    <<Lit("RETENCION"), Ws, Lit("ING.BRUTOS"), Greedy("nonnum", 0, Unbounded)>>
    \o HyphenAmount

RX_RET_IVA ==
    <<Lit("RETENCION"), Ws, Lit("IVA"), Greedy("nonnum", 0, Unbounded)>> \o HyphenAmount

RX_RET_GCIAS ==
    <<Lit("RETENCION"), Ws,
      Alt(<< <<Lit("IMP."), Ws, Lit("GANANCIAS")>>, <<Lit("GANANCIAS")>> >>),
      Greedy("nonnum", 0, Unbounded)>> \o HyphenAmount

ZeroUni ==
    [iva21 |-> 0, iva105 |-> 0, perc_30 |-> 0, perc_15 |-> 0,
     ret_iibb |-> 0, ret_iva |-> 0, ret_gcias |-> 0]

UniKeys == DOMAIN ZeroUni

\* The universal rules in the order extract_universal runs them, each with
\* the total it adds to.
UniRules ==
    <<[rx |-> RX_IVA21_ANY, key |-> "iva21"],
      [rx |-> RX_IVA21_RI_DTO_FOT, key |-> "iva21"],
      [rx |-> RX_IVA21_RI_SERV_INT, key |-> "iva21"],
      [rx |-> RX_IVA105, key |-> "iva105"],
      [rx |-> RX_PERC_IVA_30, key |-> "perc_30"],
      [rx |-> RX_PERC_IVA_15, key |-> "perc_15"],
      [rx |-> RX_RET_IIBB, key |-> "ret_iibb"],
      [rx |-> RX_RET_IVA, key |-> "ret_iva"],
      [rx |-> RX_RET_GCIAS, key |-> "ret_gcias"]>>

\* The amounts each universal rule matches in text.
UniMatches(rules, text) ==
    [n \in 1..Len(rules) |-> [key |-> rules[n].key, vals |-> Amounts(rules[n].rx, text)]]

RECURSIVE SumKey(_, _, _)
\* The sum of the amounts of the rules from n on that add to key.
SumKey(ms, key, n) ==
    IF n > Len(ms) THEN 0
    ELSE (IF ms[n].key = key THEN SumVals(ms[n].vals) ELSE 0) + SumKey(ms, key, n + 1)

UniTotals(ms) ==
    [ok |-> \A n \in 1..Len(ms) : AllOk(ms[n].vals),
     tot |-> [k \in UniKeys |-> round2(SumKey(ms, k, 1), 1)]]

extract_universal(text) == UniTotals(UniMatches(UniRules, text))

(***************************************************************************)
(* Page texts the documents are built from.                                *)
(***************************************************************************)
SP == <<" ">>
NL == <<"NL">>
IvaRi == <<"IVA", " ", "RI", " ">>
Iva2100 == <<"IVA", " ", "2", "1", ",", "0", "0", "%">>
Arancel == <<"IVA", " ", "S/ARANCEL DE DESCUENTO", " ", "2", "1", ",", "0", "0", "%">>
Costo == <<"IVA", " ", "S/COSTO FINANCIERO", " ", "1", "0", ",", "5", "0", "%">>
RetIva == <<"RETENCION", " ", "IVA">>
Rg2408Text == <<"PERCEPCION", " ", "IVA", " ", "RG", " ", "2", "4", "0", "8", " ">>

\* IVA RI SERV.OPER. INT. 45,20 / IVA RI SIST CUOTAS 12,00
PageServCuotas ==
    IvaRi \o <<"SERV.OPER.INT.", " ", "4", "5", ",", "2", "0">> \o NL
    \o IvaRi \o <<"SIST CUOTAS", " ", "1", "2", ",", "0", "0">>

\* IVA 21,00% 210,00
PageIva210 == Iva2100 \o SP \o <<"2", "1", "0", ",", "0", "0">>

\* IVA 21,00% -210,00
PageIvaNeg == Iva2100 \o SP \o <<"-", "2", "1", "0", ",", "0", "0">>

\* IVA 21,00% - 12,00
PageSignSpace == Iva2100 \o SP \o <<"-", " ", "1", "2", ",", "0", "0">>

\* RETENCION ING.BRUTOS 100,00 / RETENCION IVA 50,00 / RETENCION IMP. GANANCIAS 30,00
PageRetenciones ==
    <<"RETENCION", " ", "ING.BRUTOS", " ", "1", "0", "0", ",", "0", "0">> \o NL
    \o RetIva \o <<" ", "5", "0", ",", "0", "0">> \o NL
    \o <<"RETENCION", " ", "IMP.", " ", "GANANCIAS", " ", "3", "0", ",", "0", "0">>

\* IVA S/ARANCEL DE DESCUENTO 21,00%....1.000,00-
PageCabal1000 ==
    Arancel \o <<".", ".", ".", ".", "1", ".", "0", "0", "0", ",", "0", "0", "-">>

\* PERCEPCION DE IVA RG 333 7,00- / RETENCION IVA 50,00
PageCabalRetIva ==
    <<"PERCEPCION", " ", "DE", " ", "IVA", " ", "RG", " ", "3", "3", "3", " ",
      "7", ",", "0", "0", "-">> \o NL \o RetIva \o <<" ", "5", "0", ",", "0", "0">>

\* IVA S/COSTO FINANCIERO 10,50% 10,00- / RETENCION DE INGRESOS BR 9,00- /
\* -IVA 21,00% 5,00-
PageCabalCosto ==
    Costo \o <<" ", "1", "0", ",", "0", "0", "-">> \o NL
    \o <<"RETENCION", " ", "DE", " ", "INGRESOS BR", " ", "9", ",", "0", "0", "-">> \o NL
    \o <<"-">> \o Iva2100 \o <<" ", "5", ",", "0", "0", "-">>

\* IVA S/ARANCEL DE DESCUENTO 21,00% 0,00- / RETENCION IVA 50,00
PageCabalZero ==
    Arancel \o <<" ", "0", ",", "0", "0", "-">> \o NL
    \o RetIva \o <<" ", "5", "0", ",", "0", "0">>

\* BASE NETO 21 500,00 / IVA 21,00% 210,00
PageBasePrinted ==
    <<"BASE NETO", " ", "2", "1", " ", "5", "0", "0", ",", "0", "0">> \o NL \o PageIva210

\* RETENCION IVA / IVA RI SERV.OPER.INT. 45,20
PageHeaderOverlap ==
    RetIva \o NL \o IvaRi \o <<"SERV.OPER.INT.", " ", "4", "5", ",", "2", "0">>

\* IVA RI CRED.FISC.COMERCIO S/DTO F.OTORG 21,00% 100,00
PageDtoFot ==
    IvaRi \o <<"CRED.FISC.COMERCIO S/DTO F.OTORG", " ", "2", "1", ",", "0", "0", "%",
               " ", "1", "0", "0", ",", "0", "0">>

\* RETENCION(nbsp)IVA (U+2212)50,00 / IVA S/COSTO FINANCIERO 10,50% 21,00 /
\* PERCEPCION IVA RG 2408 3,00% 3,00 / PERCEPCION IVA RG 2408 1,50% 1,50 /
\* IVA CRED.FISC.COM. L.25063 S/DTO F.OTOR 10,50% 10,50
PageUniMisc ==
    <<"RETENCION", "xa0", "IVA", " ", "u2212", "5", "0", ",", "0", "0">> \o NL
    \o Costo \o <<" ", "2", "1", ",", "0", "0">> \o NL
    \o Rg2408Text \o <<"3", ",", "0", "0", "%", " ", "3", ",", "0", "0">> \o NL
    \o Rg2408Text \o <<"1", ",", "5", "0", "%", " ", "1", ",", "5", "0">> \o NL
    \o <<"IVA", " ", "CRED.FISC.COM.L.", "2", "5", "0", "6", "3", " ", "S/DTO F.OTOR", " ",
         "1", "0", ",", "5", "0", "%", " ", "1", "0", ",", "5", "0">>

\* A page whose text extraction gave nothing.
PageEmpty == <<>>

PageTexts ==
    {PageServCuotas, PageIva210, PageIvaNeg, PageSignSpace, PageRetenciones,
     PageCabal1000, PageCabalRetIva, PageCabalCosto, PageCabalZero, PageBasePrinted,
     PageHeaderOverlap, PageDtoFot, PageUniMisc, PageEmpty}

(***************************************************************************)
(* Router + consolidation: extract_resumen_from_bytes                      *)
(***************************************************************************)
\* Pages per document.
MaxPages == 2

\* A document: what the PDF reader returns for its bytes, a page text each.
Docs == UNION {[1..n -> PageTexts] : n \in 1..MaxPages}

\* The documents of the concurrent invocations.
ConcDocs ==
    {<<PageCabal1000, PageRetenciones>>, <<PageIva210>>, <<PageServCuotas, PageSignSpace>>}

Procs == {1, 2}

\* "_aie_input.pdf" before any invocation wrote it.
NoFile == <<>>

AddTot(a, b) == [k \in DOMAIN a |-> a[k] + b[k]]

\* A mutant of any_nonzero: only the first total is tested.
any_nonzero_first(tot) == tot.iva_arancel # 0

\* any(v != 0.0 for v in page_cabal.values())
any_nonzero(tot) == \E k \in DOMAIN tot : tot[k] # 0

\* page.extract_text() ... .replace("\xa0", " ").replace("u2212", "-")
page_text(raw) == replace(replace(raw, "xa0", <<" ">>), "u2212", <<"-">>)

\* A mutant of route_page: the universal rules run on every page.
route_page_both(acc, page_cabal, page_uni) ==
    [ok |-> page_cabal.ok /\ page_uni.ok,
     saw_cabal |-> acc.saw_cabal \/ any_nonzero(page_cabal.tot),
     cabal_tot |-> IF any_nonzero(page_cabal.tot)
                   THEN AddTot(acc.cabal_tot, page_cabal.tot) ELSE acc.cabal_tot,
     uni_tot |-> AddTot(acc.uni_tot, page_uni.tot),
     route |-> Append(acc.route, IF any_nonzero(page_cabal.tot) THEN "cabal" ELSE "universal")]

\* The body of the page loop after page_cabal = extract_cabal_exact(text);
\* page_uni = extract_universal(text) is used in the else branch alone.
\* ok = FALSE: an exception left the loop.
route_page(acc, page_cabal, page_uni) ==
    IF ~page_cabal.ok THEN [acc EXCEPT !.ok = FALSE]
    ELSE IF any_nonzero(page_cabal.tot)
    THEN [ok |-> TRUE,
          saw_cabal |-> TRUE,
          cabal_tot |-> AddTot(acc.cabal_tot, page_cabal.tot),
          uni_tot |-> acc.uni_tot,
          route |-> Append(acc.route, "cabal")]
    ELSE IF ~page_uni.ok THEN [acc EXCEPT !.ok = FALSE]
    ELSE [ok |-> TRUE,
          saw_cabal |-> acc.saw_cabal,
          cabal_tot |-> acc.cabal_tot,
          uni_tot |-> AddTot(acc.uni_tot, page_uni.tot),
          route |-> Append(acc.route, "universal")]

\* One iteration of the page loop on the accumulators acc and the normalised
\* page text.
process_text(acc, text) == route_page(acc, extract_cabal_exact(text), extract_universal(text))

process_page(acc, raw) == process_text(acc, page_text(raw))

\* A mutant of base_neto: the quotient is cut off, not rounded.
base_neto_trunc(iva, num, den) ==
    IF iva # 0
    THEN (IF iva > 0 THEN (iva * num) \div den ELSE 0 - ((0 - iva) * num) \div den)
    ELSE 0

\* round(iva / rate, 2) if iva else 0.0, the rate being den/num cents per cent
\* (0.21 = 21/100, 0.105 = 105/1000).
base_neto(iva, num, den) == IF iva # 0 THEN round2(iva * num, den) ELSE 0

Concepto ==
    <<"Base Neto 21%", "IVA 21% (Total)", "Base Neto 10,5%", "IVA 10,5% (Total)",
      "Percepciones IVA (Total)", "Retenciones IBB", "Retenciones IVA",
      "Retenciones Ganancias">>

DataFrame(montos) == [k \in 1..Len(Concepto) |-> [Concepto |-> Concepto[k], Monto |-> montos[k]]]

\* A mutant of consolidar: the Cabal branch reports the universal withholdings.
consolidar_keeps_ret(saw, ct, ut) ==
    LET iva21 == round2(IF saw THEN ct.iva_arancel ELSE ut.iva21, 1)
        iva105 == round2(IF saw THEN ct.iva_costo ELSE ut.iva105, 1)
    IN  DataFrame(<<base_neto(iva21, 100, 21), iva21, base_neto(iva105, 1000, 105), iva105,
                    round2(IF saw THEN ct.percep_rg333 ELSE ut.perc_30 + ut.perc_15, 1),
                    round2(IF saw THEN ct.ret_iibb ELSE ut.ret_iibb, 1),
                    round2(ut.ret_iva, 1), round2(ut.ret_gcias, 1)>>)

\* The summary built from the accumulators once the page loop has ended.
consolidar(saw, ct, ut) ==
    IF saw
    THEN LET iva21 == round2(ct.iva_arancel, 1)
             base21 == base_neto(iva21, 100, 21)
             iva105 == round2(ct.iva_costo, 1)
             base105 == base_neto(iva105, 1000, 105)
             percep == round2(ct.percep_rg333, 1)
             ret_iibb == round2(ct.ret_iibb, 1)
         IN  DataFrame(<<base21, iva21, base105, iva105, percep, ret_iibb, 0, 0>>)
    ELSE LET iva21 == round2(ut.iva21, 1)
             base21 == base_neto(iva21, 100, 21)
             iva105 == round2(ut.iva105, 1)
             base105 == base_neto(iva105, 1000, 105)
             percep == round2(ut.perc_30 + ut.perc_15, 1)
             ret_iibb == round2(ut.ret_iibb, 1)
             ret_iva == round2(ut.ret_iva, 1)
             ret_gcs == round2(ut.ret_gcias, 1)
         IN  DataFrame(<<base21, iva21, base105, iva105, percep, ret_iibb, ret_iva, ret_gcs>>)

(***************************************************************************)
(* The invocations.  pc: "idle" (never called), "write" (about to write    *)
(* the input file), "open" (about to open it), "pages" (in the page loop), *)
(* "done" (returned the summary), "raised" (left by an exception).         *)
(***************************************************************************)
StartState(b, called) ==
    /\ file = NoFile
    /\ bytes = b
    /\ pc = [p \in Procs |-> IF p \in called THEN "write" ELSE "idle"]
    /\ pages = [p \in Procs |-> <<>>]
    /\ idx = [p \in Procs |-> 0]
    /\ cabal_tot = [p \in Procs |-> ZeroCabal]
    /\ uni_tot = [p \in Procs |-> ZeroUni]
    /\ saw_cabal = [p \in Procs |-> FALSE]
    /\ route = [p \in Procs |-> <<>>]
    /\ resumen = [p \in Procs |-> <<>>]

\* One invocation, on any document.
Init == \E d \in Docs : StartState([p \in Procs |-> IF p = 1 THEN d ELSE <<>>], {1})

\* Two invocations whose steps interleave.
InitConc == \E b \in [Procs -> ConcDocs] : StartState(b, Procs)

\* with open(tmp_path, "wb") as f: f.write(pdf_bytes); the accumulators start.
WriteInput(p) ==
    /\ pc[p] = "write"
    /\ file' = bytes[p]
    /\ cabal_tot' = [cabal_tot EXCEPT ![p] = ZeroCabal]
    /\ uni_tot' = [uni_tot EXCEPT ![p] = ZeroUni]
    /\ saw_cabal' = [saw_cabal EXCEPT ![p] = FALSE]
    /\ pc' = [pc EXCEPT ![p] = "open"]
    /\ UNCHANGED <<bytes, pages, idx, route, resumen>>

\* pdfplumber.open(tmp_path): the pages are those of the file as it is now.
OpenPdf(p) ==
    /\ pc[p] = "open"
    /\ pages' = [pages EXCEPT ![p] = file]
    /\ pc' = [pc EXCEPT ![p] = "pages"]
    /\ UNCHANGED <<file, bytes, idx, cabal_tot, uni_tot, saw_cabal, route, resumen>>

\* The accumulators of invocation p.
Acc(p) ==
    [ok |-> TRUE, saw_cabal |-> saw_cabal[p], cabal_tot |-> cabal_tot[p],
     uni_tot |-> uni_tot[p], route |-> route[p]]

\* The accumulators after a page, or the exception that ends the invocation.
Store(p, new) ==
    IF new.ok
    THEN /\ saw_cabal' = [saw_cabal EXCEPT ![p] = new.saw_cabal]
         /\ cabal_tot' = [cabal_tot EXCEPT ![p] = new.cabal_tot]
         /\ uni_tot' = [uni_tot EXCEPT ![p] = new.uni_tot]
         /\ route' = [route EXCEPT ![p] = new.route]
         /\ idx' = [idx EXCEPT ![p] = @ + 1]
         /\ pc' = pc
    ELSE /\ pc' = [pc EXCEPT ![p] = "raised"]
         /\ UNCHANGED <<saw_cabal, cabal_tot, uni_tot, route, idx>>

\* for page in pdf.pages: one page.
ProcessPage(p) ==
    /\ pc[p] = "pages"
    /\ idx[p] < Len(pages[p])
    /\ Store(p, process_page(Acc(p), pages[p][idx[p] + 1]))
    /\ UNCHANGED <<file, bytes, pages, resumen>>

\* The loop has ended: build and return the summary.
Consolidate(p) ==
    /\ pc[p] = "pages"
    /\ idx[p] = Len(pages[p])
    /\ resumen' = [resumen EXCEPT ![p] = consolidar(saw_cabal[p], cabal_tot[p], uni_tot[p])]
    /\ pc' = [pc EXCEPT ![p] = "done"]
    /\ UNCHANGED <<file, bytes, pages, idx, cabal_tot, uni_tot, saw_cabal, route>>

Next ==
    \E p \in Procs :
        \/ WriteInput(p)
        \/ OpenPdf(p)
        \/ ProcessPage(p)
        \/ Consolidate(p)

Spec == Init /\ [][Next]_vars

SpecConc == InitConc /\ [][Next]_vars

(***************************************************************************)
(* Properties                                                              *)
(***************************************************************************)
Done(p) == pc[p] = "done"

\* The amount of the summary row of invocation p labelled c.
Row(p, c) == resumen[p][CHOOSE k \in 1..Len(Concepto) : resumen[p][k].Concepto = c].Monto

Abs(x) == IF x < 0 THEN 0 - x ELSE x

\* The places in text of the amounts the universal rules capture: the rule
\* and the first and last atom of the amount.
RuleCaptures(n, ms) == {[rule |-> n, first |-> ms[j].s, last |-> ms[j].e - 1] : j \in 1..Len(ms)}

Captures(text) ==
    UNION {RuleCaptures(n, finditer(UniRules[n].rx, text, 1)) : n \in 1..Len(UniRules)}

\* What the matchers find on a normalised page text.
FactsOf(raw, text) ==
    [raw |-> raw,
     cabal |-> extract_cabal_exact(text).tot,
     uni |-> extract_universal(text).tot,
     matches |-> CabalMatches(text),
     captures |-> Captures(text)]

\* The same for every page text of the documents, worked out once.
PageFacts == {FactsOf(raw, page_text(raw)) : raw \in PageTexts}

\* What the matchers find on page k of the document invocation p opened.
Facts(p, k) == CHOOSE f \in PageFacts : f.raw = pages[p][k]

RoutedCabal(p) == \E k \in 1..Len(route[p]) : route[p][k] = "cabal"

\* What page k adds to the rows fed by both strategies, under the strategy
\* the page was routed to.
CabalShare(t) ==
    [iva21 |-> t.iva_arancel, iva105 |-> t.iva_costo, percep |-> t.percep_rg333,
     ret_iibb |-> t.ret_iibb]

UniShare(t) ==
    [iva21 |-> t.iva21, iva105 |-> t.iva105, percep |-> t.perc_30 + t.perc_15,
     ret_iibb |-> t.ret_iibb]

PageShare(p, k) ==
    IF route[p][k] = "cabal" THEN CabalShare(Facts(p, k).cabal)
    ELSE UniShare(Facts(p, k).uni)

RECURSIVE ShareSum(_, _, _)
\* The sum of what the pages up to n add to the row fed by share.
ShareSum(p, share, n) ==
    IF n = 0 THEN 0 ELSE ShareSum(p, share, n - 1) + PageShare(p, n)[share]

\* C1: every summary row is the sum over ALL pages of the document of what
\* the page matched under the strategy the page was routed to, also when the
\* pages mix the strategies.  Stated for the four rows both strategies feed.
C1_AllPagesSummed ==
    \A p \in Procs :
        Done(p) =>
            /\ Row(p, "IVA 21% (Total)") = ShareSum(p, "iva21", Len(pages[p]))
            /\ Row(p, "IVA 10,5% (Total)") = ShareSum(p, "iva105", Len(pages[p]))
            /\ Row(p, "Percepciones IVA (Total)") = ShareSum(p, "percep", Len(pages[p]))
            /\ Row(p, "Retenciones IBB") = ShareSum(p, "ret_iibb", Len(pages[p]))

\* C2: a page with "IVA RI SERV.OPER. INT. 45,20" and "IVA RI SIST CUOTAS
\* 12,00" yields IVA 21% (Total) = 57.20: the installments line counts.
C2_InstallmentsCounted ==
    \A p \in Procs :
        (Done(p) /\ pages[p] = <<PageServCuotas>>) => Row(p, "IVA 21% (Total)") = 5720

\* C3: a printed "BASE NETO 21 500,00" makes the Base Neto 21% row 500.00; the
\* base is not derived from the tax.
C3_PrintedBaseUsed ==
    \A p \in Procs :
        (Done(p) /\ pages[p] = <<PageBasePrinted>>) => Row(p, "Base Neto 21%") = 50000

\* C4: parsing an amount never fails: no invocation is left by an exception
\* of to_float_signed.
C4_ParseNeverRaises == \A p \in Procs : pc[p] # "raised"

\* C5: an invocation reads and summarises its own bytes, never those of
\* another invocation, however their steps interleave.
C5_OwnBytes == \A p \in Procs : pc[p] \in {"pages", "done", "raised"} => pages[p] = bytes[p]

\* C6: when at least one page of the document was routed to Cabal, the rows
\* Retenciones IVA and Retenciones Ganancias are 0.0.
C6_CabalZeroesWithholdings ==
    \A p \in Procs :
        (Done(p) /\ RoutedCabal(p)) =>
            /\ Row(p, "Retenciones IVA") = 0
            /\ Row(p, "Retenciones Ganancias") = 0

\* A Cabal document, summarised, one of whose pages matched universal
\* withholdings.
C6_Witness ==
    /\ Done(1) /\ RoutedCabal(1)
    /\ uni_tot[1].ret_iva # 0 /\ uni_tot[1].ret_gcias # 0

\* b is num/den rounded to the nearest cent.
Nearest(b, num, den) == 2 * Abs(den * b - num) <= den

DerivedFrom(base, iva, num, den) ==
    IF iva = 0 THEN base = 0 ELSE Nearest(base, iva * num, den)

\* C7: a base row is the VAT total divided by the rate (0.21, 0.105), rounded
\* to 2 decimals, and 0.0 when the VAT total is zero; 210.00 gives 1000.00 and
\* 1000.00 gives 4761.90; under the Cabal and the universal formula.
C7_BaseDerivation ==
    \A p \in Procs :
        Done(p) =>
            /\ DerivedFrom(Row(p, "Base Neto 21%"), Row(p, "IVA 21% (Total)"), 100, 21)
            /\ DerivedFrom(Row(p, "Base Neto 10,5%"), Row(p, "IVA 10,5% (Total)"), 1000, 105)
            /\ Row(p, "IVA 21% (Total)") = 21000 => Row(p, "Base Neto 21%") = 100000
            /\ Row(p, "IVA 21% (Total)") = 100000 => Row(p, "Base Neto 21%") = 476190

\* The Cabal line of 1.000,00 summarised: VAT 1000.00, base 4761.90.
C7_Witness ==
    /\ Done(1) /\ saw_cabal[1]
    /\ Row(1, "IVA 21% (Total)") = 100000
    /\ Row(1, "Base Neto 21%") = 476190

RECURSIVE CabalSum(_, _, _)
\* The Cabal amounts under key of the pages up to n that were routed to Cabal.
CabalSum(p, key, n) ==
    IF n = 0 THEN 0
    ELSE CabalSum(p, key, n - 1)
         + (IF route[p][n] = "cabal" THEN Facts(p, n).cabal[key] ELSE 0)

RECURSIVE UniSum(_, _, _)
\* The universal amounts under key of the pages up to n that were routed to
\* universal.
UniSum(p, key, n) ==
    IF n = 0 THEN 0
    ELSE UniSum(p, key, n - 1)
         + (IF route[p][n] = "universal" THEN Facts(p, n).uni[key] ELSE 0)

\* C8: every processed page has added its matches to exactly one of the two
\* accumulators: the Cabal totals hold the Cabal matches of the pages routed
\* to Cabal and nothing else, the universal totals the universal matches of
\* the other pages and nothing else.
C8_OneAccumulatorPerPage ==
    \A p \in Procs :
        /\ Len(route[p]) = idx[p]
        /\ \A key \in CabalKeys : cabal_tot[p][key] = CabalSum(p, key, idx[p])
        /\ \A key \in UniKeys : uni_tot[p][key] = UniSum(p, key, idx[p])

\* A processed page routed to Cabal that the universal rules match too.
C8_Witness ==
    \E k \in 1..idx[1] :
        /\ route[1][k] = "cabal"
        /\ \E key \in UniKeys : Facts(1, k).uni[key] # 0

HasMatch(ms) == \E key \in CabalKeys : ms[key] # <<>>

HasNonZeroMatch(ms) == \E key \in CabalKeys : \E j \in 1..Len(ms[key]) : ms[key][j].val # 0

NoNegativeMatch(ms) == \A key \in CabalKeys : \A j \in 1..Len(ms[key]) : ms[key][j].val >= 0

\* C9: a page is routed to Cabal if and only if some Cabal rule has a match
\* on it whose amount is non-zero (the matched Cabal amounts are never
\* negative, so they cannot cancel in the per-page totals).
C9_CabalIffNonZeroMatch ==
    \A p \in Procs :
        \A k \in 1..Len(route[p]) :
            /\ (route[p][k] = "cabal") <=> HasNonZeroMatch(Facts(p, k).matches)
            /\ NoNegativeMatch(Facts(p, k).matches)

\* A processed page whose Cabal matches are all 0,00, routed to universal.
C9_Witness ==
    \E k \in 1..Len(route[1]) :
        /\ route[1][k] = "universal"
        /\ HasMatch(Facts(1, k).matches)
        /\ ~HasNonZeroMatch(Facts(1, k).matches)

Disjoint(a, b) == a.last < b.first \/ b.last < a.first

CountedOnce(caps) == \A a \in caps : \A b \in caps : a # b => Disjoint(a, b)

\* C10: on a page routed to universal no printed amount is counted twice: the
\* amounts the rules capture do not overlap.
C10_NoDoubleCount ==
    \A p \in Procs :
        \A k \in 1..Len(route[p]) :
            route[p][k] = "universal" => CountedOnce(Facts(p, k).captures)

====
